---- MODULE Spec2Model ----
(***************************************************************************)
(* ScreenshotTool: the long-press screenshot client (src/client.py) and    *)
(* the upload / gallery server (src/web_run.py).                           *)
(*                                                                         *)
(* Strings are sequences of one-character strings, so that prefix tests,   *)
(* splitext, lower() and the lexicographic order of sorted() are computed  *)
(* the way Python computes them.  Instants are integer clock ticks.        *)
(***************************************************************************)
EXTENDS Integers, Sequences, FiniteSets, TLC

VARIABLES
    now,                     \* client: the value time.time() returns
    left_button_press_time,  \* client: global of that name (None when unset)
    click_time,              \* client: config["click_time"]
    threads,                 \* client: number of upload threads started so far
    gesture,                 \* client: log of the latest left press and release
    workers,                 \* client: the upload threads, in the order they were started
    SHUTDOWN_EVENT,          \* client: the threading.Event of that name
    main,                    \* client: where the main (Tk) thread is
    dialog,                  \* client: log of the latest threshold dialog
    clock,                   \* server: the value datetime.now() returns
    last_update_time,        \* server: app_state._last_update_time
    fs,                      \* server: UPLOAD_DIR, user directory -> file -> content
    up,                      \* server: the /api/upload request in the handler
    nUploads,                \* server: upload requests received so far
    responses,               \* server: how many 201 responses carried each server_path
    del,                     \* server: the delete_user_images call in progress
    nDeletes,                \* server: delete_user_images calls made so far
    vw                       \* server: one browser session of the Gradio UI

clientVars == <<now, left_button_press_time, click_time, threads, gesture,
                workers, SHUTDOWN_EVENT, main, dialog>>
serverVars == <<clock, last_update_time, fs, up, nUploads, responses, del, nDeletes, vw>>
vars == <<now, left_button_press_time, click_time, threads, gesture,
          workers, SHUTDOWN_EVENT, main, dialog,
          clock, last_update_time, fs, up, nUploads, responses, del, nDeletes, vw>>

----------------------------------------------------------------------------
(* Bounds of the model *)

MaxTime == 5        \* the client clock runs 0..MaxTime
MaxThreads == 2     \* upload threads started by the client
MaxClock == 2       \* the server clock runs 1..MaxClock
MaxUploads == 2     \* upload requests
MaxDeletes == 1     \* delete_user_images calls

----------------------------------------------------------------------------
(* Strings *)

Str1(a) == <<a>>
Str4(a, b, c, d) == <<a, b, c, d>>
Str5(a, b, c, d, e) == <<a, b, c, d, e>>

\* Unicode code points of the characters the model uses (Python compares
\* strings code point by code point).
Ord(c) ==
    CASE c = "*" -> 42  [] c = "-" -> 45  [] c = "." -> 46  [] c = "/" -> 47
      [] c = "0" -> 48  [] c = "1" -> 49  [] c = "2" -> 50  [] c = "3" -> 51
      [] c = "4" -> 52  [] c = "5" -> 53  [] c = "6" -> 54  [] c = "7" -> 55
      [] c = "8" -> 56  [] c = "9" -> 57
      [] c = "G" -> 71  [] c = "N" -> 78  [] c = "P" -> 80
      [] c = "_" -> 95
      [] c = "a" -> 97  [] c = "b" -> 98  [] c = "e" -> 101 [] c = "f" -> 102
      [] c = "g" -> 103 [] c = "i" -> 105 [] c = "m" -> 109 [] c = "n" -> 110
      [] c = "p" -> 112 [] c = "t" -> 116 [] c = "x" -> 120

\* str.lower() on one character
LowerChar(c) ==
    CASE c = "G" -> "g" [] c = "N" -> "n" [] c = "P" -> "p" [] OTHER -> c

Lower(s) == [i \in 1..Len(s) |-> LowerChar(s[i])]

\* str.startswith
StartsWith(s, p) == Len(p) <= Len(s) /\ SubSeq(s, 1, Len(p)) = p

\* s < t for Python strings
RECURSIVE StrLess(_, _)
StrLess(s, t) ==
    IF t = <<>> THEN FALSE
    ELSE IF s = <<>> THEN TRUE
    ELSE IF Ord(Head(s)) # Ord(Head(t)) THEN Ord(Head(s)) < Ord(Head(t))
    ELSE StrLess(Tail(s), Tail(t))

\* str.rfind of one character: the last index, 0 when absent
RFind(s, c) ==
    LET hits == {i \in 1..Len(s) : s[i] = c}
    IN IF hits = {} THEN 0 ELSE CHOOSE i \in hits : \A j \in hits : j <= i

\* os.path.splitext(f)[1] for a name without directory separators: the text
\* from the last dot on, unless only dots precede that dot.
SplitextExt(f) ==
    LET dot == RFind(f, ".")
    IN IF dot > 0 /\ \E k \in 1..(dot - 1) : f[k] # "."
       THEN SubSeq(f, dot, Len(f))
       ELSE <<>>

----------------------------------------------------------------------------
(* Client: src/client.py *)

None == -1                  \* Python's None, for fields that hold an instant
LEFT == "left"
Buttons == {"left", "right"}

\* float(click_time_str) for the strings the model enters: an optional minus
\* sign and decimal digits; anything else raises ValueError.
IsDigit(c) == Ord(c) >= 48 /\ Ord(c) <= 57

RECURSIVE DecimalValue(_)
DecimalValue(s) ==
    IF s = <<>> THEN 0
    ELSE 10 * DecimalValue(SubSeq(s, 1, Len(s) - 1)) + (Ord(s[Len(s)]) - 48)

ParseFloat(s) ==
    LET neg == s # <<>> /\ Head(s) = "-"
        digits == IF neg THEN Tail(s) ELSE s
    IN IF digits # <<>> /\ \A i \in 1..Len(digits) : IsDigit(digits[i])
       THEN [ok |-> TRUE, val |-> IF neg THEN 0 - DecimalValue(digits) ELSE DecimalValue(digits)]
       ELSE [ok |-> FALSE, val |-> 0]

\* What the operator types into the third dialog (askstring returns None on
\* cancel, modelled by the flag of ShowConfigWindow).
ClickTimeInputs == {Str1("1"), Str1("2"), Str1("4"), Str1("0"), <<"-", "1">>, Str1("x"), <<>>}

\* the comparison of line 65, mutated to a strict one
QualifiesStrict(hold_duration, threshold) == hold_duration > threshold

\* line 65: hold_duration >= config['click_time']
Qualifies(hold_duration, threshold) == hold_duration >= threshold

\* the test of line 61, left out
PressPendingAlways(press_time) == TRUE

\* line 61: left_button_press_time is not None
PressPending(press_time) == press_time # None

\* line 59, mutated to keep the time of the first press of a session
PressTimeKeepFirst(press_time, t) == IF press_time = None THEN t ELSE press_time

\* line 59: left_button_press_time = time.time(), whatever it held
PressTime(press_time, t) == t

\* line 65, mutated to compare with the threshold in force at the press
ReleaseThresholdCached(at_press, at_release) == at_press

\* line 65: config['click_time'] is read when the release is handled
ReleaseThreshold(at_press, at_release) == at_release

\* line 88, mutated to let zero through
ValidClickTimeOrZero(new_time) == new_time >= 0

\* line 88: new_time > 0
ValidClickTime(new_time) == new_time > 0

\* take_screenshot_and_upload as a thread starts it: before line 37, no POST
\* made, nothing logged
WorkerStart == [pc |-> "L37_grab", posts |-> 0, logged |-> "none"]

\* the upload threads that have not returned (nor been abandoned at exit)
InFlight(ws) == {i \in 1..Len(ws) : ws[i].pc \in {"L37_grab", "L47_post", "L47_wait"}}

\* line 66, mutated to call the target on the listener thread: on_click
\* returns only when the upload has
ListenerBusyInline(ws) == InFlight(ws) # {}

\* line 66: Thread(...).start() returns at once, the listener thread never
\* runs an upload
ListenerBusy(ws) == FALSE

\* lines 50-51, mutated to try the POST once more
RequestFailedRetry(w) ==
    IF w.posts < 2 THEN [w EXCEPT !.pc = "L47_post"]
    ELSE [w EXCEPT !.pc = "returned", !.logged = "L51"]

\* lines 50-51: a RequestException is printed and the function returns
RequestFailed(w) == [w EXCEPT !.pc = "returned", !.logged = "L51"]

\* what the pointer listener is doing: mouse_listener.start() (line 135) has
\* run, mouse_listener_thread.stop() (line 149) has not
ListenerRunning == main = "L160_mainloop"

\* the latest dialog changed nothing
DialogNone == [click_time_str |-> <<>>, rejected |-> FALSE, previous |-> None]

ClientInit ==
    /\ now = 0
    /\ left_button_press_time = None
    /\ click_time = 4
    /\ threads = 0
    /\ gesture = [pressed_at |-> None, open |-> FALSE, hold |-> None,
                  threshold |-> None, fired |-> FALSE,
                  repressed |-> FALSE, first_pressed_at |-> None,
                  threshold_at_press |-> None, ignored |-> FALSE]
    /\ workers = <<>>
    /\ SHUTDOWN_EVENT = FALSE
    /\ main = "L160_mainloop"
    /\ dialog = DialogNone

\* time passes on the client
ClientTick ==
    /\ now < MaxTime
    /\ now' = now + 1
    /\ UNCHANGED <<left_button_press_time, click_time, threads, gesture,
                   workers, SHUTDOWN_EVENT, main, dialog>>
    /\ UNCHANGED serverVars

\* on_click(x, y, button, pressed), called by the pointer listener
OnClick(button, pressed) ==
    /\ ListenerRunning
    /\ ~ListenerBusy(workers)
    /\ IF button = LEFT
       THEN IF pressed
            THEN /\ left_button_press_time' = PressTime(left_button_press_time, now)
                 /\ gesture' = [gesture EXCEPT
                                    !.pressed_at = now,
                                    !.open = TRUE,
                                    !.repressed = gesture.open,
                                    !.first_pressed_at = IF gesture.open THEN @ ELSE now,
                                    !.threshold_at_press = click_time,
                                    !.ignored = FALSE]
                 /\ UNCHANGED <<threads, workers>>
            ELSE IF PressPending(left_button_press_time)
                 THEN LET hold_duration == now - left_button_press_time
                          threshold == ReleaseThreshold(gesture.threshold_at_press, click_time)
                      IN /\ left_button_press_time' = None
                         /\ IF Qualifies(hold_duration, threshold)
                            THEN /\ threads < MaxThreads
                                 /\ threads' = threads + 1
                                 /\ workers' = Append(workers, WorkerStart)
                            ELSE UNCHANGED <<threads, workers>>
                         /\ gesture' = [gesture EXCEPT
                                            !.open = FALSE,
                                            !.hold = hold_duration,
                                            !.threshold = click_time,
                                            !.fired = Qualifies(hold_duration, threshold),
                                            !.ignored = FALSE]
                 ELSE /\ gesture' = [gesture EXCEPT !.open = FALSE, !.ignored = TRUE]
                      /\ UNCHANGED <<left_button_press_time, threads, workers>>
       ELSE UNCHANGED <<left_button_press_time, threads, gesture, workers>>
    /\ UNCHANGED <<now, click_time, SHUTDOWN_EVENT, main, dialog>>
    /\ UNCHANGED serverVars

\* show_config_window, the third dialog (lines 83-93), on the Tk thread
ShowConfigWindow(click_time_str, cancelled) ==
    /\ main = "L160_mainloop"
    /\ IF cancelled
       THEN /\ UNCHANGED click_time
            /\ dialog' = DialogNone
       ELSE LET new_time == ParseFloat(click_time_str)
            IN IF new_time.ok /\ ValidClickTime(new_time.val)
               THEN /\ click_time' = new_time.val
                    /\ dialog' = DialogNone
               ELSE /\ UNCHANGED click_time
                    /\ dialog' = [click_time_str |-> click_time_str, rejected |-> TRUE,
                                  previous |-> click_time]
    /\ UNCHANGED <<now, left_button_press_time, threads, gesture, workers,
                   SHUTDOWN_EVENT, main>>
    /\ UNCHANGED serverVars

\* one upload thread takes a step of take_screenshot_and_upload
WorkerStep(i, w) ==
    /\ main # "exited"
    /\ workers' = [workers EXCEPT ![i] = w]
    /\ UNCHANGED <<now, left_button_press_time, click_time, threads, gesture,
                   SHUTDOWN_EVENT, main, dialog>>
    /\ UNCHANGED serverVars

\* lines 37-46: the screen is grabbed and encoded
WorkerGrab(i) ==
    /\ workers[i].pc = "L37_grab"
    /\ WorkerStep(i, [workers[i] EXCEPT !.pc = "L47_post"])

\* lines 37-39 raise (no display, out of memory): lines 52-53 print and return
WorkerGrabFails(i) ==
    /\ workers[i].pc = "L37_grab"
    /\ WorkerStep(i, [workers[i] EXCEPT !.pc = "returned", !.logged = "L53"])

\* line 47: requests.post sends the request (timeout=15)
WorkerPost(i) ==
    /\ workers[i].pc = "L47_post"
    /\ WorkerStep(i, [workers[i] EXCEPT !.pc = "L47_wait", !.posts = @ + 1])

\* lines 47-49: a 2xx response arrives in time
WorkerUploaded(i) ==
    /\ workers[i].pc = "L47_wait"
    /\ WorkerStep(i, [workers[i] EXCEPT !.pc = "returned", !.logged = "L49"])

\* lines 47-48: the connection fails, the timeout expires or raise_for_status
\* raises on a non-2xx response; all are RequestExceptions
WorkerRequestFails(i) ==
    /\ workers[i].pc = "L47_wait"
    /\ WorkerStep(i, RequestFailed(workers[i]))

\* on_exit_clicked, from the tray menu
OnExitClicked ==
    /\ main = "L160_mainloop"
    /\ SHUTDOWN_EVENT' = TRUE
    /\ UNCHANGED <<now, left_button_press_time, click_time, threads, gesture,
                   workers, main, dialog>>
    /\ UNCHANGED serverVars

\* check_for_shutdown, every 200 ms on the Tk thread: with the event set it
\* stops the listener and the tray icon and destroys the root window, which
\* makes mainloop return; otherwise it re-arms itself
CheckForShutdown ==
    /\ main = "L160_mainloop"
    /\ main' = IF SHUTDOWN_EVENT THEN "L162_returned" ELSE main
    /\ UNCHANGED <<now, left_button_press_time, click_time, threads, gesture,
                   workers, SHUTDOWN_EVENT, dialog>>
    /\ UNCHANGED serverVars

\* lines 162-165: main returns and the interpreter exits; the upload threads
\* are daemon threads (line 66), so those still running are abandoned
ProcessExit ==
    /\ main = "L162_returned"
    /\ main' = "exited"
    /\ workers' = [i \in 1..Len(workers) |->
                      IF i \in InFlight(workers)
                      THEN [workers[i] EXCEPT !.pc = "killed"]
                      ELSE workers[i]]
    /\ UNCHANGED <<now, left_button_press_time, click_time, threads, gesture,
                   SHUTDOWN_EVENT, dialog>>
    /\ UNCHANGED serverVars

\* the pointer listener and the configuration dialog
ClientNext ==
    \/ ClientTick
    \/ \E button \in Buttons, pressed \in BOOLEAN : OnClick(button, pressed)
    \/ \E s \in ClickTimeInputs, cancelled \in BOOLEAN : ShowConfigWindow(s, cancelled)

\* a threshold low enough for several triggers in a row
QuickClickTimes == {Str1("1")}

\* the pointer listener, the upload threads it starts and the shutdown
UploaderNext ==
    \/ ClientTick
    \/ \E pressed \in BOOLEAN : OnClick(LEFT, pressed)
    \/ \E s \in QuickClickTimes : ShowConfigWindow(s, FALSE)
    \/ \E i \in 1..Len(workers) : WorkerGrab(i)
    \/ \E i \in 1..Len(workers) : WorkerGrabFails(i)
    \/ \E i \in 1..Len(workers) : WorkerPost(i)
    \/ \E i \in 1..Len(workers) : WorkerUploaded(i)
    \/ \E i \in 1..Len(workers) : WorkerRequestFails(i)
    \/ OnExitClicked
    \/ CheckForShutdown
    \/ ProcessExit

----------------------------------------------------------------------------
(* Server: src/web_run.py.  Names, pure functions and the file system *)

UPLOAD_DIR == "uploads"
ALL_USERS_OPTION == Str1("*")     \* the "all users" entry of the dropdown
ImagePrefix == <<"i", "m", "a", "g", "e", "/">>
image_extensions ==
    { Str4(".", "j", "p", "g"), Str5(".", "j", "p", "e", "g"), Str4(".", "p", "n", "g"),
      Str4(".", "g", "i", "f"), Str4(".", "b", "m", "p"), Str5(".", "w", "e", "b", "p") }

\* Inputs of the model
UploadUsers == {Str1("a"), Str1("b")}
ContentTypes == {ImagePrefix \o Str1("p"), Str4("t", "e", "x", "t")}
FileNames == {Str5("a", ".", "P", "N", "G"), Str5("a", ".", "t", "x", "t")}
DeleteInputs == UploadUsers \cup {<<>>, ALL_USERS_OPTION}
ImageChunks == 1                  \* size of an uploaded body, in chunks

EmptyDir == <<>>

\* datetime.now().strftime("%Y%m%d_%H%M%S%f"): fixed width, zero padded
Digit(n) == <<"0", "1", "2", "3", "4", "5", "6", "7", "8", "9">>[n + 1]
Strftime(t) == <<Digit((t \div 10) % 10), Digit(t % 10)>>

\* f"{server_timestamp}_{image.filename}"
StoredName(server_timestamp, filename) == Strftime(server_timestamp) \o Str1("_") \o filename

\* os.path.join(UPLOAD_DIR, username, filename) and os.path.basename
Path(username, filename) == <<UPLOAD_DIR, username, filename>>
Basename(path) == path[Len(path)]

\* os.path.isdir(os.path.join(UPLOAD_DIR, username)): joining the empty name
\* gives "uploads/", the root itself.
IsDir(f, username) == username = <<>> \/ username \in DOMAIN f

\* os.makedirs(user_dir, exist_ok=True)
MakeDirs(f, username) ==
    IF username \in DOMAIN f THEN f
    ELSE [d \in DOMAIN f \cup {username} |-> IF d = username THEN EmptyDir ELSE f[d]]

\* open(filepath, "wb") and the writes that follow: the entry holds `content`,
\* the number of chunks written
PutFile(f, username, name, content) ==
    [f EXCEPT ![username] =
        [n \in DOMAIN @ \cup {name} |-> IF n = name THEN content ELSE @[n]]]

\* os.unlink of one entry, os.rmdir of one empty directory
Unlink(f, username, name) ==
    [f EXCEPT ![username] = [n \in DOMAIN @ \ {name} |-> @[n]]]
Rmdir(f, dirs) == [d \in DOMAIN f \ dirs |-> f[d]]

\* sorted(strings): ascending sequence of a set of strings
RECURSIVE SortAsc(_)
SortAsc(S) ==
    IF S = {} THEN <<>>
    ELSE LET m == CHOOSE x \in S : \A y \in S : ~StrLess(y, x)
         IN <<m>> \o SortAsc(S \ {m})

\* get_all_users()
get_all_users(f) == SortAsc(DOMAIN f)

\* the loop of lines 49-51 / 55-57 over one directory.  os.listdir gives the
\* names in no particular order; they are distinct, so the final sort by
\* basename gives the same result for every order.
ListImagesOfDir(f, user) ==
    LET names == SortAsc(DOMAIN f[user])
        keep == SelectSeq(names, LAMBDA n : Lower(SplitextExt(n)) \in image_extensions)
    IN [i \in 1..Len(keep) |-> Path(user, keep[i])]

RECURSIVE ConcatDirs(_, _)
ConcatDirs(f, users) ==
    IF users = <<>> THEN <<>>
    ELSE ListImagesOfDir(f, Head(users)) \o ConcatDirs(f, Tail(users))

\* sorted(image_paths, key=os.path.basename, reverse=True): stable, so paths
\* with equal basenames keep the order in which they were appended.
RECURSIVE SortedByBasenameDesc(_)
SortedByBasenameDesc(paths) ==
    IF paths = <<>> THEN <<>>
    ELSE LET rest == SortedByBasenameDesc(SubSeq(paths, 1, Len(paths) - 1))
             x == paths[Len(paths)]
             \* x goes behind every element whose key is >= its own
             k == Cardinality({i \in 1..Len(rest) : ~StrLess(Basename(rest[i]), Basename(x))})
         IN SubSeq(rest, 1, k) \o <<x>> \o SubSeq(rest, k + 1, Len(rest))

\* get_user_images(username)
get_user_images(f, username) ==
    LET image_paths ==
            IF username = ALL_USERS_OPTION THEN ConcatDirs(f, get_all_users(f))
            ELSE IF username # <<>> /\ username \in DOMAIN f THEN ListImagesOfDir(f, username)
            ELSE <<>>
    IN SortedByBasenameDesc(image_paths)

----------------------------------------------------------------------------
(* Server: POST /api/upload.  The handler is a coroutine without an await, *)
(* so the event loop runs one upload body at a time; the Gradio handlers   *)
(* run on worker threads and interleave with it at every file system call. *)

UpIdle ==
    [pc |-> "idle", username |-> <<>>, content_type |-> <<>>, filename |-> <<>>,
     stored |-> <<>>, written |-> 0, t |-> None, status |-> 0,
     ver0 |-> None, fresh |-> FALSE, disturbed |-> FALSE]

\* the handler returns: its locals are gone, the response and the log stay
UpReturn(u, status) ==
    [u EXCEPT !.pc = "done", !.status = status, !.filename = <<>>, !.written = 0,
              !.ver0 = None]

DelIdle ==
    [pc |-> "idle", username |-> <<>>, caller |-> "none", entries |-> {}, removed |-> {},
     t |-> None, result |-> FALSE, bumped |-> 0, ver0 |-> None, existed |-> FALSE,
     disturbed |-> FALSE]

UpActive == up.pc \notin {"idle", "done"}
DelActive == del.pc \notin {"idle", "done"}

\* the file the upload in progress holds open
UpHoldsOpen(username, name) ==
    /\ up.pc = "L82_copy"
    /\ up.username = username
    /\ up.stored = name

\* log: an upload acted since the logged delete began, and the reverse
DelSeesUpload(d) == [d EXCEPT !.disturbed = @ \/ (d.pc # "idle")]
UpSeesDelete(u) == [u EXCEPT !.disturbed = @ \/ (u.pc # "idle")]

\* the test of line 75, left out
RejectsNothing(content_type) == FALSE

\* line 75: not image.content_type.startswith("image/")
RejectsContentType(content_type) == ~StartsWith(content_type, ImagePrefix)

\* the response is sent: a 201 carries server_path (line 86)
Respond(log, u) ==
    IF u.status = 201
    THEN LET server_path == Path(u.username, u.stored)
         IN [p \in DOMAIN log \cup {server_path} |->
                IF p = server_path
                THEN (IF p \in DOMAIN log THEN log[p] + 1 ELSE 1)
                ELSE log[p]]
    ELSE log

\* lines 74-77: the request arrives, the content type is checked, the user
\* directory is created
UploadReceive(username, content_type, filename) ==
    /\ ~UpActive
    /\ nUploads < MaxUploads
    /\ nUploads' = nUploads + 1
    /\ LET u == [UpIdle EXCEPT !.username = username,
                               !.content_type = content_type, !.filename = filename,
                               !.ver0 = last_update_time,
                               !.fresh = username \notin DOMAIN fs,
                               !.disturbed = DelActive]
       IN IF RejectsContentType(content_type)
          THEN /\ up' = UpReturn(u, 400)
               /\ responses' = Respond(responses, up')
               /\ UNCHANGED <<fs, del>>
          ELSE /\ up' = [u EXCEPT !.pc = "L78"]
               /\ fs' = MakeDirs(fs, username)
               /\ del' = DelSeesUpload(del)
               /\ UNCHANGED responses
    /\ UNCHANGED <<clock, last_update_time, nDeletes, vw>>
    /\ UNCHANGED clientVars

\* lines 78-80: the server timestamp and the stored name
UploadTimestamp ==
    /\ up.pc = "L78"
    /\ up' = [up EXCEPT !.pc = "L82_open", !.stored = StoredName(clock, up.filename)]
    /\ UNCHANGED <<clock, last_update_time, fs, nUploads, responses, del, nDeletes, vw>>
    /\ UNCHANGED clientVars

\* line 82, open(filepath, "wb"): creates or truncates the file; raises
\* FileNotFoundError (a 500) when the directory is gone
UploadOpen ==
    /\ up.pc = "L82_open"
    /\ IF up.username \in DOMAIN fs
       THEN /\ fs' = PutFile(fs, up.username, up.stored, 0)
            /\ up' = [up EXCEPT !.pc = "L82_copy"]
            /\ del' = DelSeesUpload(del)
            /\ UNCHANGED responses
       ELSE /\ up' = UpReturn(up, 500)
            /\ responses' = Respond(responses, up')
            /\ UNCHANGED <<fs, del>>
    /\ UNCHANGED <<clock, last_update_time, nUploads, nDeletes, vw>>
    /\ UNCHANGED clientVars

\* the directory entry still names the file this upload opened (on POSIX the
\* writes to an unlinked file succeed and are seen by nobody; no other upload
\* runs meanwhile that could create the name again)
UpLinked ==
    /\ up.username \in DOMAIN fs
    /\ up.stored \in DOMAIN fs[up.username]

\* line 82, shutil.copyfileobj: one chunk reaches the file
UploadCopyChunk ==
    /\ up.pc = "L82_copy"
    /\ up.written < ImageChunks
    /\ up' = [up EXCEPT !.written = @ + 1]
    /\ IF UpLinked
       THEN fs' = PutFile(fs, up.username, up.stored, up.written + 1)
       ELSE UNCHANGED fs
    /\ del' = DelSeesUpload(del)
    /\ UNCHANGED <<clock, last_update_time, nUploads, responses, nDeletes, vw>>
    /\ UNCHANGED clientVars

\* line 82, shutil.copyfileobj: a write fails (disk full, I/O error); the
\* exception leaves through the finally of line 84 and the request gets a 500
UploadCopyFail ==
    /\ up.pc = "L82_copy"
    /\ up.written < ImageChunks
    /\ up' = UpReturn(up, 500)
    /\ responses' = Respond(responses, up')
    /\ UNCHANGED <<clock, last_update_time, fs, nUploads, del, nDeletes, vw>>
    /\ UNCHANGED clientVars

\* line 83 -> line 26, right-hand side: datetime.now() is evaluated
UploadMarkNow ==
    /\ up.pc = "L82_copy"
    /\ up.written = ImageChunks
    /\ up' = [up EXCEPT !.pc = "L26_store", !.t = clock]
    /\ UNCHANGED <<clock, last_update_time, fs, nUploads, responses, del, nDeletes, vw>>
    /\ UNCHANGED clientVars

\* line 26, the store into _last_update_time; lines 84-86: close, 201
UploadMarkStore ==
    /\ up.pc = "L26_store"
    /\ last_update_time' = up.t
    /\ up' = UpReturn(up, 201)
    /\ responses' = Respond(responses, up')
    /\ del' = DelSeesUpload(del)
    /\ vw' = [vw EXCEPT !.stale = TRUE]
    /\ UNCHANGED <<clock, fs, nUploads, nDeletes>>
    /\ UNCHANGED clientVars

----------------------------------------------------------------------------
(* Server: delete_user_images, called by handle_delete_batch or directly *)

\* the guard of line 61, mutated to let the empty name through
InvalidDeleteTargetNoEmpty(username) == username = ALL_USERS_OPTION

\* line 61: not username or username == ALL_USERS_OPTION
InvalidDeleteTarget(username) == username = <<>> \/ username = ALL_USERS_OPTION

\* what shutil.rmtree(user_dir) finds to unlink: <<directory, file>> pairs
RmtreeEntries(f, username) ==
    IF username = <<>>
    THEN {e \in (DOMAIN f) \X UNION {DOMAIN f[x] : x \in DOMAIN f} : e[2] \in DOMAIN f[e[1]]}
    ELSE {<<username, n>> : n \in DOMAIN f[username]}

\* the directories rmtree removes at its end
RmtreeDirs(f, username) == IF username = <<>> THEN DOMAIN f ELSE {username}

\* lines 60-63: the call, the guard and the isdir test
DeleteEnter(username, caller) ==
    LET d == [DelIdle EXCEPT !.username = username, !.caller = caller,
                             !.ver0 = last_update_time,
                             !.existed = username \in DOMAIN fs,
                             !.disturbed = UpActive]
    IN IF InvalidDeleteTarget(username) \/ ~IsDir(fs, username)
       THEN [d EXCEPT !.pc = "done", !.result = FALSE]
       ELSE [d EXCEPT !.pc = "L65_scan"]

DeleteCall(username) ==
    /\ ~DelActive
    /\ vw.pc # "L135"
    /\ nDeletes < MaxDeletes
    /\ nDeletes' = nDeletes + 1
    /\ del' = DeleteEnter(username, "direct")
    /\ up' = UpSeesDelete(up)
    /\ UNCHANGED <<clock, last_update_time, fs, nUploads, responses, vw>>
    /\ UNCHANGED clientVars

\* line 65, shutil.rmtree: the directory is listed
DeleteScan ==
    /\ del.pc = "L65_scan"
    /\ del' = [del EXCEPT !.pc = "L65_unlink", !.entries = RmtreeEntries(fs, del.username)]
    /\ up' = UpSeesDelete(up)
    /\ UNCHANGED <<clock, last_update_time, fs, nUploads, responses, nDeletes, vw>>
    /\ UNCHANGED clientVars

\* line 65, shutil.rmtree: one listed file is unlinked
DeleteUnlink(e) ==
    /\ del.pc = "L65_unlink"
    /\ e \in del.entries
    /\ fs' = Unlink(fs, e[1], e[2])
    /\ del' = [del EXCEPT !.entries = @ \ {e}, !.removed = @ \cup {e}]
    /\ up' = UpSeesDelete(up)
    /\ UNCHANGED <<clock, last_update_time, nUploads, responses, nDeletes, vw>>
    /\ UNCHANGED clientVars

\* line 65, shutil.rmtree: unlinking a file that the upload handler holds open
\* raises PermissionError on Windows; lines 68-70 catch it and return False
DeleteUnlinkRefused(e) ==
    /\ del.pc = "L65_unlink"
    /\ e \in del.entries
    /\ UpHoldsOpen(e[1], e[2])
    /\ del' = [del EXCEPT !.pc = "done", !.result = FALSE, !.entries = {}]
    /\ up' = UpSeesDelete(up)
    /\ UNCHANGED <<clock, last_update_time, fs, nUploads, responses, nDeletes, vw>>
    /\ UNCHANGED clientVars

\* line 65, shutil.rmtree: the directory itself is removed; os.rmdir raises
\* OSError when a file has appeared in it meanwhile (lines 68-70: False)
DeleteRmdir ==
    /\ del.pc = "L65_unlink"
    /\ del.entries = {}
    /\ IF \A d \in RmtreeDirs(fs, del.username) : d \in DOMAIN fs /\ DOMAIN fs[d] = {}
       THEN /\ fs' = Rmdir(fs, RmtreeDirs(fs, del.username))
            /\ del' = [del EXCEPT !.pc = "L26_now"]
       ELSE /\ del' = [del EXCEPT !.pc = "done", !.result = FALSE]
            /\ UNCHANGED fs
    /\ up' = UpSeesDelete(up)
    /\ UNCHANGED <<clock, last_update_time, nUploads, responses, nDeletes, vw>>
    /\ UNCHANGED clientVars

\* line 66 -> line 26, right-hand side: datetime.now() is evaluated
DeleteMarkNow ==
    /\ del.pc = "L26_now"
    /\ del' = [del EXCEPT !.pc = "L26_store", !.t = clock]
    /\ UNCHANGED <<clock, last_update_time, fs, up, nUploads, responses, nDeletes, vw>>
    /\ UNCHANGED clientVars

\* line 26, the store into _last_update_time; line 67: return True
DeleteMarkStore ==
    /\ del.pc = "L26_store"
    /\ last_update_time' = del.t
    /\ del' = [del EXCEPT !.pc = "done", !.result = TRUE, !.bumped = @ + 1]
    /\ up' = UpSeesDelete(up)
    /\ vw' = [vw EXCEPT !.stale = TRUE]
    /\ UNCHANGED <<clock, fs, nUploads, responses, nDeletes>>
    /\ UNCHANGED clientVars

\* datetime.now() advances; between two ticks every reader gets the same value
ServerTick ==
    /\ clock < MaxClock
    /\ clock' = clock + 1
    /\ UNCHANGED <<last_update_time, fs, up, nUploads, responses, del, nDeletes, vw>>
    /\ UNCHANGED clientVars

----------------------------------------------------------------------------
(* Server: one browser session of the Gradio UI (create_gradio_ui) *)

Range(q) == {q[i] : i \in 1..Len(q)}

\* line 143, mutated to refresh on an equal version too
hasChangedSinceOrEqual(last_known_update) == last_update_time >= last_known_update

\* line 143: app_state.last_update_time > last_known_update
hasChangedSince(last_known_update) == last_update_time > last_known_update

\* a handler calls update_ui_components(username)
VwCall(v, username) == [v EXCEPT !.pc = "L120", !.arg = username]

\* demo.load -> initial_load
VwInitialLoad ==
    /\ vw.pc = "idle"
    /\ vw' = VwCall([vw EXCEPT !.last_tick = "none"], ALL_USERS_OPTION)
    /\ UNCHANGED <<clock, last_update_time, fs, up, nUploads, responses, del, nDeletes>>
    /\ UNCHANGED clientVars

\* username_dropdown.change: the operator picks another entry of the dropdown
VwDropdownChange(username) ==
    /\ vw.pc = "idle"
    /\ username \in Range(vw.choices)
    /\ username # vw.username
    /\ vw' = VwCall([vw EXCEPT !.username = username, !.last_tick = "none"], username)
    /\ UNCHANGED <<clock, last_update_time, fs, up, nUploads, responses, del, nDeletes>>
    /\ UNCHANGED clientVars

\* refresh_button.click
VwRefreshClick ==
    /\ vw.pc = "idle"
    /\ vw' = VwCall([vw EXCEPT !.last_tick = "none"], vw.username)
    /\ UNCHANGED <<clock, last_update_time, fs, up, nUploads, responses, del, nDeletes>>
    /\ UNCHANGED clientVars

\* timer.tick -> check_for_updates(username, last_known_update)
VwTimerTick ==
    /\ vw.pc = "idle"
    /\ IF hasChangedSince(vw.client_last_update)
       THEN vw' = VwCall([vw EXCEPT !.last_tick = "refresh"], vw.username)
       ELSE vw' = [vw EXCEPT !.last_tick = "skip"]
    /\ UNCHANGED <<clock, last_update_time, fs, up, nUploads, responses, del, nDeletes>>
    /\ UNCHANGED clientVars

\* batch_delete_button.click -> handle_delete_batch(username), lines 131-135
VwDeleteClick ==
    /\ vw.pc = "idle"
    /\ IF vw.username = <<>> \/ vw.username = ALL_USERS_OPTION
       THEN /\ vw' = VwCall([vw EXCEPT !.last_tick = "none"], vw.username)
            /\ UNCHANGED <<del, nDeletes, up>>
       ELSE /\ ~DelActive
            /\ nDeletes < MaxDeletes
            /\ nDeletes' = nDeletes + 1
            /\ del' = DeleteEnter(vw.username, "viewer")
            /\ up' = UpSeesDelete(up)
            /\ vw' = [vw EXCEPT !.pc = "L135", !.last_tick = "none"]
    /\ UNCHANGED <<clock, last_update_time, fs, nUploads, responses>>
    /\ UNCHANGED clientVars

\* handle_delete_batch, lines 135-140: delete_user_images has returned
VwDeleteReturn ==
    /\ vw.pc = "L135"
    /\ del.pc = "done"
    /\ del.caller = "viewer"
    /\ vw' = VwCall(vw, IF del.result THEN ALL_USERS_OPTION ELSE vw.username)
    /\ UNCHANGED <<clock, last_update_time, fs, up, nUploads, responses, del, nDeletes>>
    /\ UNCHANGED clientVars

\* update_ui_components, lines 120-123
VwScanUsers ==
    /\ vw.pc = "L120"
    /\ LET all_users_from_disk == <<ALL_USERS_OPTION>> \o get_all_users(fs)
           username_to_display ==
               IF vw.arg \notin Range(all_users_from_disk) THEN ALL_USERS_OPTION ELSE vw.arg
       IN vw' = [vw EXCEPT !.pc = "L124", !.all_users = all_users_from_disk,
                           !.arg = username_to_display,
                           !.view_ver = last_update_time]
    /\ UNCHANGED <<clock, last_update_time, fs, up, nUploads, responses, del, nDeletes>>
    /\ UNCHANGED clientVars

\* update_ui_components, line 124
VwScanImages ==
    /\ vw.pc = "L124"
    /\ vw' = [vw EXCEPT !.pc = "L128", !.images = get_user_images(fs, vw.arg)]
    /\ UNCHANGED <<clock, last_update_time, fs, up, nUploads, responses, del, nDeletes>>
    /\ UNCHANGED clientVars

\* update_ui_components, lines 125-129: the version is read and the three
\* outputs reach the browser
VwCommit ==
    /\ vw.pc = "L128"
    /\ vw' = [vw EXCEPT !.pc = "idle", !.choices = vw.all_users, !.username = vw.arg,
                        !.gallery = vw.images, !.client_last_update = last_update_time,
                        !.arg = <<>>, !.all_users = <<>>, !.images = <<>>,
                        !.stale = FALSE]
    /\ UNCHANGED <<clock, last_update_time, fs, up, nUploads, responses, del, nDeletes>>
    /\ UNCHANGED clientVars

\* AppState() and the Gradio blocks were constructed at instant 0 (lines 29,
\* 92, 164); uvicorn serves its first request at a later instant.
ServerInit ==
    /\ clock = 1
    /\ last_update_time = 0
    /\ fs = <<>>
    /\ up = UpIdle
    /\ nUploads = 0
    /\ responses = <<>>
    /\ del = DelIdle
    /\ nDeletes = 0
    /\ vw = [pc |-> "idle", username |-> ALL_USERS_OPTION, choices |-> <<ALL_USERS_OPTION>>,
             gallery |-> <<>>, client_last_update |-> 0, arg |-> <<>>, all_users |-> <<>>,
             images |-> <<>>, stale |-> FALSE, last_tick |-> "none", view_ver |-> 0]

Init == ClientInit /\ ServerInit

StorageNext ==
    \/ ServerTick
    \/ \E username \in UploadUsers, content_type \in ContentTypes, filename \in FileNames :
            UploadReceive(username, content_type, filename)
    \/ UploadTimestamp
    \/ UploadOpen
    \/ UploadCopyChunk
    \/ UploadCopyFail
    \/ UploadMarkNow
    \/ UploadMarkStore
    \/ \E username \in DeleteInputs : DeleteCall(username)
    \/ DeleteScan
    \/ \E e \in del.entries : DeleteUnlink(e)
    \/ \E e \in del.entries : DeleteUnlinkRefused(e)
    \/ DeleteRmdir
    \/ DeleteMarkNow
    \/ DeleteMarkStore

\* uploads alone, with every input
IngestNext ==
    \/ ServerTick
    \/ \E username \in UploadUsers, content_type \in ContentTypes, filename \in FileNames :
            UploadReceive(username, content_type, filename)
    \/ UploadTimestamp
    \/ UploadOpen
    \/ UploadCopyChunk
    \/ UploadCopyFail
    \/ UploadMarkNow
    \/ UploadMarkStore

\* the uploads the client makes: an image type and the client's one file name
ClientContentTypes == {ImagePrefix \o Str1("p")}
ClientFileNames == {Str5("a", ".", "P", "N", "G")}
ViewedUsers == {Str1("a")}

\* deletes with every input, among uploads as the client makes them
CatalogNext ==
    \/ ServerTick
    \/ \E username \in UploadUsers, content_type \in ClientContentTypes,
          filename \in ClientFileNames :
            UploadReceive(username, content_type, filename)
    \/ UploadTimestamp
    \/ UploadOpen
    \/ UploadCopyChunk
    \/ UploadCopyFail
    \/ UploadMarkNow
    \/ UploadMarkStore
    \/ \E username \in DeleteInputs : DeleteCall(username)
    \/ DeleteScan
    \/ \E e \in del.entries : DeleteUnlink(e)
    \/ \E e \in del.entries : DeleteUnlinkRefused(e)
    \/ DeleteRmdir
    \/ DeleteMarkNow
    \/ DeleteMarkStore

ViewerNext ==
    \/ ServerTick
    \/ \E username \in ViewedUsers, content_type \in ClientContentTypes,
          filename \in ClientFileNames :
            UploadReceive(username, content_type, filename)
    \/ UploadTimestamp
    \/ UploadOpen
    \/ UploadCopyChunk
    \/ UploadCopyFail
    \/ UploadMarkNow
    \/ UploadMarkStore
    \/ DeleteScan
    \/ \E e \in del.entries : DeleteUnlink(e)
    \/ \E e \in del.entries : DeleteUnlinkRefused(e)
    \/ DeleteRmdir
    \/ DeleteMarkNow
    \/ DeleteMarkStore
    \/ VwInitialLoad
    \/ \E username \in DeleteInputs : VwDropdownChange(username)
    \/ VwRefreshClick
    \/ VwTimerTick
    \/ VwDeleteClick
    \/ VwDeleteReturn
    \/ VwScanUsers
    \/ VwScanImages
    \/ VwCommit

\* a browser session that loads, selects and polls while uploads arrive
PollNext ==
    \/ ServerTick
    \/ \E username \in ViewedUsers, content_type \in ClientContentTypes,
          filename \in ClientFileNames :
            UploadReceive(username, content_type, filename)
    \/ UploadTimestamp
    \/ UploadOpen
    \/ UploadCopyChunk
    \/ UploadCopyFail
    \/ UploadMarkNow
    \/ UploadMarkStore
    \/ VwInitialLoad
    \/ \E username \in DeleteInputs : VwDropdownChange(username)
    \/ VwTimerTick
    \/ VwScanUsers
    \/ VwScanImages
    \/ VwCommit

\* uploads and deletes on the server's storage
Spec == Init /\ [][StorageNext]_vars

\* the upload handler alone
IngestSpec == Init /\ [][IngestNext]_vars

\* deletes among the client's uploads
CatalogSpec == Init /\ [][CatalogNext]_vars

\* the server with one browser session, whose delete button makes the deletes
ViewerSpec == Init /\ [][ViewerNext]_vars

\* the server with one polling browser session and no deletes
PollSpec == Init /\ [][PollNext]_vars

\* the client's pointer listener and configuration dialog
ClientSpec == Init /\ [][ClientNext]_vars

\* the client's upload threads and shutdown
UploaderSpec == Init /\ [][UploaderNext]_vars

----------------------------------------------------------------------------
(* Properties *)

\* every file in storage, as the path get_user_images would give it
StoredPaths(users) ==
    UNION {{Path(u, n) : n \in DOMAIN fs[u]} : u \in users \cap DOMAIN fs}

\* a sequence of paths is in descending order of basename, without repeats
DescendingByBasename(paths) ==
    /\ \A i \in 1..(Len(paths) - 1) : ~StrLess(Basename(paths[i]), Basename(paths[i + 1]))
    /\ \A i, j \in 1..Len(paths) : i # j => paths[i] # paths[j]

(* C1: a left press followed, d seconds later and with no other left-button
   event in between, by a left release starts exactly one upload thread (one
   Trigger) when d >= click_time and none when d < click_time; d = click_time
   triggers. *)
C1_HoldTriggersIffThreshold ==
    [][ (gesture.open /\ OnClick(LEFT, FALSE))
            => threads' - threads =
                   (IF now - gesture.pressed_at >= click_time THEN 1 ELSE 0) ]_vars

\* a release exactly click_time after its press has fired
C1_Witness ==
    /\ gesture.fired
    /\ gesture.hold = gesture.threshold
    /\ threads >= 1

(* C2: the poll comparison is true whenever an ingest or delete has committed
   since the browser session observed its version, and false when none has. *)
C2_PollSeesEveryCommit ==
    /\ vw.stale => hasChangedSince(vw.client_last_update)
    /\ ~vw.stale => ~hasChangedSince(vw.client_last_update)

(* C3: the version never decreases, and when an ingest or a delete completes
   the version is strictly greater than the version read when it began. *)
C3_VersionStrictlyIncreases ==
    [][ /\ last_update_time' >= last_update_time
        /\ UploadMarkStore => last_update_time' > up.ver0
        /\ DeleteMarkStore => last_update_time' > del.ver0 ]_vars

(* C4: the server_path values of the 201 responses are pairwise distinct
   (distinct storedName within each user), so no ingest overwrites another. *)
C4_StoredNamesDistinct ==
    \A server_path \in DOMAIN responses : responses[server_path] = 1

(* C5: delete_user_images called with the empty name, with the "all users"
   entry or with a user that has no directory returns False, has unlinked
   nothing and has not touched the version. *)
C5_InvalidDeleteHasNoEffect ==
    (del.pc = "done" /\ (del.username = <<>> \/ del.username = ALL_USERS_OPTION \/ ~del.existed))
        => (del.result = FALSE /\ del.removed = {} /\ del.bumped = 0)

\* a call with the empty name has returned while files are stored
C5_Witness ==
    /\ del.pc = "done"
    /\ del.username = <<>>
    /\ del.result = FALSE
    /\ \E u \in DOMAIN fs : DOMAIN fs[u] # {}

(* C6: every delete_user_images call that has returned either returned True,
   having removed files of that user only and bumped the version exactly
   once, or returned False having removed nothing and left the version alone. *)
C6_DeleteAllOrNothing ==
    del.pc = "done" =>
        IF del.result
        THEN del.bumped = 1 /\ \A e \in del.removed : e[1] = del.username
        ELSE del.removed = {} /\ del.bumped = 0

(* C7: get_user_images("all users") is exactly the files of every user and
   get_user_images(u) exactly the files of u, both in descending order of
   storedName; for a user without a directory it is empty. *)
C7_ListImagesExact ==
    /\ Range(get_user_images(fs, ALL_USERS_OPTION)) = StoredPaths(DOMAIN fs)
    /\ DescendingByBasename(get_user_images(fs, ALL_USERS_OPTION))
    /\ \A u \in UploadUsers :
          /\ Range(get_user_images(fs, u)) = StoredPaths({u})
          /\ DescendingByBasename(get_user_images(fs, u))
          /\ u \notin DOMAIN fs => get_user_images(fs, u) = <<>>

(* C8: after an upload for a user without a directory has returned 201 (and
   no delete has acted since it began) its server_path lies in that user's
   directory, get_all_users() has the user and get_user_images(user) has
   exactly one entry; after a delete has returned True (and no upload has
   acted since it began) get_all_users() lacks the user and
   get_user_images(user) is empty. *)
C8_EndToEnd ==
    /\ (up.pc = "done" /\ up.status = 201 /\ up.fresh /\ ~up.disturbed)
          => /\ Path(up.username, up.stored) \in DOMAIN responses
             /\ Path(up.username, up.stored)[1] = UPLOAD_DIR
             /\ Path(up.username, up.stored)[2] = up.username
             /\ up.username \in Range(get_all_users(fs))
             /\ Len(get_user_images(fs, up.username)) = 1
    /\ (del.pc = "done" /\ del.result /\ ~del.disturbed)
          => /\ del.username \notin Range(get_all_users(fs))
             /\ get_user_images(fs, del.username) = <<>>

(* C9: an upload whose write failed has answered 500 and has not bumped the
   version, and every file get_user_images returns holds the complete bytes
   of an upload, during a write and after a failed one. *)
C9_NoPartialFileVisible ==
    /\ (up.pc = "done" /\ up.status = 500) => up.t = None
    /\ \A p \in Range(get_user_images(fs, ALL_USERS_OPTION)) :
          fs[p[2]][p[3]] = ImageChunks

(* C10: an upload whose declared content type does not start with "image/"
   is answered 400 and changes neither the directories, nor the files, nor
   the version. *)
C10_NonImageRejected ==
    [][ \A username \in UploadUsers, content_type \in ContentTypes, filename \in FileNames :
            (UploadReceive(username, content_type, filename)
                /\ ~StartsWith(content_type, <<"i", "m", "a", "g", "e", "/">>))
            => /\ up'.status = 400
               /\ up'.pc = "done"
               /\ fs' = fs
               /\ last_update_time' = last_update_time
               /\ responses' = responses ]_vars

\* a non-image upload for a user without a directory has been answered 400
C10_Witness ==
    /\ up.pc = "done"
    /\ up.status = 400
    /\ ~StartsWith(up.content_type, ImagePrefix)
    /\ up.fresh
    /\ up.username \notin DOMAIN fs

(* C11: a left release handled while left_button_press_time is None starts no
   upload thread and leaves left_button_press_time None. *)
C11_ReleaseWithoutPressIsNoOp ==
    [][ (left_button_press_time = None /\ OnClick(LEFT, FALSE))
            => /\ threads' = threads
               /\ workers' = workers
               /\ left_button_press_time' = None ]_vars

\* a release found no press pending, at an instant that exceeds the threshold
C11_Witness ==
    /\ gesture.ignored
    /\ now >= click_time
    /\ left_button_press_time = None
    /\ threads = 0

(* C12: when a left press arrived while another was pending, the release that
   follows starts a thread iff the time since the most recent press is at least
   click_time, it starts at most one and clears the pending press; a further
   release starts none. *)
C12_SecondPressReplacesSession ==
    [][ /\ (gesture.open /\ gesture.repressed /\ OnClick(LEFT, FALSE))
              => /\ threads' - threads =
                        (IF now - gesture.pressed_at >= click_time THEN 1 ELSE 0)
                 /\ left_button_press_time' = None
        /\ (~gesture.open /\ gesture.repressed /\ OnClick(LEFT, FALSE))
              => threads' = threads ]_vars

\* a release did not fire although the first press of its session lay at
\* least the threshold back
C12_Witness ==
    /\ gesture.repressed
    /\ ~gesture.open
    /\ gesture.hold # None
    /\ ~gesture.fired
    /\ gesture.hold + (gesture.pressed_at - gesture.first_pressed_at) >= gesture.threshold

\* the POST requests all upload threads have sent
RECURSIVE Posts(_)
Posts(ws) == IF ws = <<>> THEN 0 ELSE Head(ws).posts + Posts(Tail(ws))

(* C13: every started thread belongs to one trigger, no thread sends more than
   one POST, and the POSTs sent never outnumber the triggers. *)
C13_AtMostOnePostPerTrigger ==
    /\ Len(workers) = threads
    /\ \A i \in 1..Len(workers) : workers[i].posts <= 1
    /\ Posts(workers) <= threads

\* an upload whose POST failed has returned after that one POST
C13_Witness ==
    \E i \in 1..Len(workers) :
        /\ workers[i].pc = "returned"
        /\ workers[i].logged = "L51"
        /\ workers[i].posts = 1

(* C14: click_time is positive in every state, and after a dialog whose entry
   was not a number or not positive it is the value it had before. *)
C14_ThresholdAlwaysPositive ==
    /\ click_time > 0
    /\ dialog.rejected => click_time = dialog.previous

\* the entry "0" was rejected and a threshold set earlier is still in force
C14_Witness ==
    /\ dialog.rejected
    /\ dialog.click_time_str = Str1("0")
    /\ click_time = 2

(* C15: a browser session at rest whose remembered version is newer than the
   version in force when it scanned the directories, with no mutation since or
   in progress, shows the users and images that are stored. *)
C15_BaselineNotNewerThanView ==
    (/\ vw.pc = "idle"
     /\ ~vw.stale
     /\ ~UpActive
     /\ ~DelActive
     /\ vw.client_last_update > vw.view_ver)
        => /\ vw.choices = <<ALL_USERS_OPTION>> \o get_all_users(fs)
           /\ vw.gallery = get_user_images(fs, vw.username)

(* C16: when click_time was changed between a left press and its release, the
   release starts a thread iff the hold lasted at least the new click_time. *)
C16_ThresholdReadAtRelease ==
    [][ (gesture.open /\ gesture.threshold_at_press # click_time /\ OnClick(LEFT, FALSE))
            => threads' - threads =
                   (IF now - gesture.pressed_at >= click_time THEN 1 ELSE 0) ]_vars

\* a hold shorter than the threshold of its press fired under a lowered one
C16_Witness ==
    /\ ~gesture.open
    /\ ~gesture.repressed
    /\ gesture.fired
    /\ gesture.hold # None
    /\ gesture.hold < gesture.threshold_at_press
    /\ gesture.hold >= gesture.threshold

(* C17: while upload threads are in flight the listener handles a press and a
   release, a qualifying release starts a further thread at its first line, and
   every thread in flight can take its next step whatever the others do. *)
C17_TriggersDoNotBlock ==
    (ListenerRunning /\ InFlight(workers) # {}) =>
        /\ ENABLED OnClick(LEFT, TRUE)
        /\ (threads < MaxThreads => ENABLED OnClick(LEFT, FALSE))
        /\ (/\ left_button_press_time # None
            /\ now - left_button_press_time >= click_time
            /\ threads < MaxThreads)
              => ENABLED (OnClick(LEFT, FALSE) /\ workers' = Append(workers, WorkerStart))
        /\ \A i \in InFlight(workers) :
              ENABLED (WorkerGrab(i) \/ WorkerPost(i) \/ WorkerUploaded(i))

\* two uploads are in flight and a press is pending
C17_Witness ==
    /\ ListenerRunning
    /\ Cardinality(InFlight(workers)) >= 2
    /\ left_button_press_time # None

(* C18: a timer tick that finds the version not newer than the remembered one
   calls no directory scan and leaves the selected user, the choices, the
   gallery, the remembered version and the storage as they were. *)
C18_NoOpPollTick ==
    [][ (VwTimerTick /\ last_update_time <= vw.client_last_update)
            => /\ vw'.pc = "idle"
               /\ vw'.username = vw.username
               /\ vw'.choices = vw.choices
               /\ vw'.gallery = vw.gallery
               /\ vw'.client_last_update = vw.client_last_update
               /\ fs' = fs ]_vars

\* a tick was skipped by a session that shows an image
C18_Witness ==
    /\ vw.last_tick = "skip"
    /\ vw.pc = "idle"
    /\ vw.gallery # <<>>
    /\ vw.client_last_update = last_update_time

(* C19: the process never exits while an upload thread is in flight: no
   thread is abandoned between its start and its return. *)
C19_ExitWaitsForUploads ==
    /\ main = "exited" => \A i \in 1..Len(workers) : workers[i].pc = "returned"
    /\ ~ListenerRunning => SHUTDOWN_EVENT

(* C20: every file a 201 response named, for as long as it is stored, is in
   get_user_images of its user and in get_user_images("all users"). *)
C20_StoredFileIsListed ==
    \A server_path \in DOMAIN responses :
        (/\ server_path[2] \in DOMAIN fs
         /\ server_path[3] \in DOMAIN fs[server_path[2]])
            => /\ server_path \in Range(get_user_images(fs, server_path[2]))
               /\ server_path \in Range(get_user_images(fs, ALL_USERS_OPTION))

====
